---- MODULE Spec2Model ----
(***************************************************************************)
(* Model of tester.py: discovery of the tests of a directory (get_tests),  *)
(* the sequential run of the program under test, one test at a time        *)
(* (run_tests), and the final report and process exit status (main).       *)
(*                                                                         *)
(* Texts are sequences of one-character strings, so that str.strip() is    *)
(* modelled by what it does.  Test keys are strings built by concatenation *)
(* exactly as the code builds them.                                        *)
(***************************************************************************)
EXTENDS Integers, Sequences, FiniteSets, TLC

\* ------------------------------------------------------------------ bounds
\* Longest text (program output, expected output) considered.
MaxLen == 2

Chars == {" ", "a"}
Texts == UNION {[1..n -> Chars] : n \in 0..MaxLen}

\* Base names of the files of the directory, names used as manifest keys.
Bases == {"foo"}
ManifestNames == {"foo", "t1"}
\* The text held by every input artifact, and the third element of an
\* over-long manifest list.
TestInput == <<"a", " ">>
ExtraText == <<"a", "a">>
ListLens == 0..3
ExitCodes == {0, 2}

\* ------------------------------------------------------- Python semantics
\* The characters str.strip() removes when called without arguments.
Whitespace == {" ", "\t", "\n", "\r", "\f"}

RECURSIVE LStrip(_)
LStrip(s) ==
    IF s # <<>> /\ Head(s) \in Whitespace THEN LStrip(Tail(s)) ELSE s

RECURSIVE RStrip(_)
RStrip(s) ==
    IF s # <<>> /\ s[Len(s)] \in Whitespace
    THEN RStrip(SubSeq(s, 1, Len(s) - 1)) ELSE s

StripTrailingOnly(s) == RStrip(s)

\* str.strip()
Strip(s) == LStrip(RStrip(s))

\* Values a checker predicate may return, as Python literals.
PyValues == {"True", "False", "1", "''"}

TruthStrict(v) == v = "True"

\* bool(v), as the `if` of line 210 evaluates the predicate's result.
Truth(v) == v \notin {"False", "0", "''", "None"}

\* ------------------------------------------------------------ test values
\* The third component of a test tuple: an expected text, a callable
\* (the `test` attribute of module mod), or None.
TextValue(s) == [kind |-> "text", text |-> s, mod |-> ""]
Callable(m) == [kind |-> "callable", text |-> <<>>, mod |-> m]
None == [kind |-> "None", text |-> <<>>, mod |-> ""]

\* Number of parameters of a checker's `test`, per the module docstring.
Arity(m) == IF m = "ALLTESTS" THEN 2 ELSE 1

KeyNoTag(name, tag) == name

\* name + '#...'
Key(name, tag) == name \o tag

HasKey(d, k) == \E i \in 1..Len(d) : d[i].key = k

\* tests[k] = (type, input, output) on an insertion-ordered dict.
Put(d, k, ty, inp, out) ==
    LET e == [key |-> k, type |-> ty, input |-> inp, output |-> out]
    IN  IF HasKey(d, k)
        THEN [i \in 1..Len(d) |-> IF d[i].key = k THEN e ELSE d[i]]
        ELSE Append(d, e)

Perms(S) ==
    {s \in [1..Cardinality(S) -> S] :
        \A i, j \in 1..Cardinality(S) : i # j => s[i] # s[j]}

\* The manifests considered: no entry, or one entry of 0 to 3 elements.
ManifestShapes ==
    {<<>>} \cup {<<e>> : e \in [name : ManifestNames, len : ListLens]}

\* ------------------------------------------------------------------ state
VARIABLES
    dir,          \* the test directory: the run's input
    tests,        \* the dict built by get_tests, in insertion order
    pc,           \* "get_tests", "run_tests" or "exited"
    idx,          \* number of completed iterations of the loop of run_tests
    passed_tests, \* the tally of run_tests
    last,         \* what the latest iteration of the loop did
    report,       \* the final line main printed: "none", "all", "partial"
    exitStatus,   \* the process's exit status, -1 while it runs
    uncaught      \* the exception that ended the process, or "none"

vars == <<dir, tests, pc, idx, passed_tests, last, report, exitStatus, uncaught>>

NoIteration ==
    [index |-> 0, key |-> "", type |-> "", input |-> <<>>, output |-> None,
     code |-> 0, stdout |-> <<>>, judged |-> FALSE, called |-> FALSE,
     args |-> <<>>,
     returned |-> "", raised |-> "none", outcome |-> "none",
     passedBefore |-> 0]

Init ==
    /\ \E ins \in SUBSET Bases, alltests \in BOOLEAN, hasManifest \in BOOLEAN,
          shape \in ManifestShapes, expected \in Texts :
         \E outs \in SUBSET ins, pys \in SUBSET ins :
           /\ hasManifest \/ shape = <<>>
           \* no artifact holds an expected text: nothing to choose
           /\ (outs # {} \/ \E i \in 1..Len(shape) : shape[i].len >= 2)
                 \/ expected = <<>>
           /\ dir = [ins |-> ins, outs |-> outs, pys |-> pys,
                     alltests |-> alltests, hasManifest |-> hasManifest,
                     expected |-> expected,
                     manifest |->
                        [i \in 1..Len(shape) |->
                            [name |-> shape[i].name,
                             list |-> SubSeq(<<TestInput, expected, ExtraText>>,
                                             1, shape[i].len)]]]
    /\ tests = <<>>
    /\ pc = "get_tests"
    /\ idx = 0
    /\ passed_tests = 0
    /\ last = NoIteration
    /\ report = "none"
    /\ exitStatus = -1
    /\ uncaught = "none"

\* --------------------------------------------------------------- get_tests
\* The loop over glob('*.in'), in the order the glob yields the files.
RECURSIVE ScanInFiles(_, _, _)
ScanInFiles(d, order, alltests) ==
    IF order = <<>> THEN d
    ELSE LET name == Head(order)
             d1 == IF name \in dir.outs
                   THEN Put(d, Key(name, "#in/out"), "static", TestInput,
                            TextValue(dir.expected))
                   ELSE d
             d2 == IF name \in dir.pys
                   THEN Put(d1, Key(name, "#in/py"), "checker", TestInput,
                            Callable(name))
                   ELSE d1
             d3 == IF alltests # None
                   THEN Put(d2, Key(name, "#in/atpy"), "checker", TestInput,
                            alltests)
                   ELSE d2
         IN  ScanInFiles(d3, Tail(order), alltests)

\* The loop over the items of TESTS.json.
RECURSIVE ScanManifest(_, _, _)
ScanManifest(d, items, alltests) ==
    IF items = <<>> THEN d
    ELSE LET name == Head(items).name
             test == Head(items).list
             d1 == IF Len(test) = 1
                   THEN Put(d, Key(name, "#json/atpy"), "checker", test[1],
                            alltests)
                   ELSE IF Len(test) = 2
                   THEN Put(d, Key(name, "#json"), "static", test[1],
                            TextValue(test[2]))
                   ELSE d
         IN  ScanManifest(d1, Tail(items), alltests)

GetTests ==
    /\ pc = "get_tests"
    /\ \E order \in Perms(dir.ins) :
         LET alltests == IF dir.alltests THEN Callable("ALLTESTS") ELSE None
             fromFiles == ScanInFiles(<<>>, order, alltests)
         IN  tests' = IF dir.hasManifest
                      THEN ScanManifest(fromFiles, dir.manifest, alltests)
                      ELSE fromFiles
    /\ pc' = "run_tests"
    /\ UNCHANGED <<dir, idx, passed_tests, last, report, exitStatus, uncaught>>

\* importlib.import_module(...).test raises: the module does not load or
\* has no attribute `test`.  Nothing catches it.
GetTestsImportError ==
    /\ pc = "get_tests"
    /\ dir.alltests \/ dir.pys # {}
    /\ pc' = "exited"
    /\ exitStatus' = 1
    /\ uncaught' = "ImportError"
    /\ UNCHANGED <<dir, tests, idx, passed_tests, last, report>>

\* --------------------------------------------------------------- run_tests
\* What a call of a checker predicate may do: return a value, or raise.  An
\* exception of class subprocess.CalledProcessError carries a stdout
\* attribute that is a str or None, as the raiser built it.
Behaviours ==
    [raises : {"none"}, value : PyValues, errStdout : {"str"}]
      \cup [raises : {"Exception"}, value : {""}, errStdout : {"str"}]
      \cup [raises : {"CalledProcessError"}, value : {""},
            errStdout : {"str", "None"}]

NoCall == [raises |-> "none", value |-> "", errStdout |-> "str"]

\* subprocess.run(..., check=True) raises CalledProcessError on a non-zero
\* exit status.
CheckRaises(code) == code # 0

CatchesNothing(exc) == FALSE

\* except subprocess.CalledProcessError
Catches(exc) == exc = "CalledProcessError"

\* The arguments line 210 passes to the predicate.
CallArgs(test_input, actual_output) == <<test_input, actual_output>>

\* test_output(test_input, actual_output): the callee is None, or takes
\* another number of arguments (TypeError either way), or runs.
Runs(callee, args) ==
    callee.kind = "callable" /\ Len(args) = Arity(callee.mod)

Call(callee, args, beh) ==
    IF ~Runs(callee, args)
    THEN [raises |-> "TypeError", value |-> "", errStdout |-> "str"]
    ELSE beh

\* The body of the try statement for one test: what was evaluated, the
\* verdict reached, or the exception that left it.
TryBody(t, code, stdout, beh) ==
    LET actual_output == Strip(stdout)
        blank == [judged |-> FALSE, called |-> FALSE, args |-> <<>>,
                  returned |-> "", raised |-> "none", errStdout |-> "str",
                  verdict |-> "none"]
    IN  IF CheckRaises(code)
        THEN [blank EXCEPT !.raised = "CalledProcessError"]
        ELSE IF t.type = "static"
        THEN [blank EXCEPT !.judged = TRUE,
                !.verdict = IF actual_output = Strip(t.output.text)
                            THEN "pass" ELSE "mismatch"]
        ELSE LET args == CallArgs(t.input, actual_output)
                 r == Call(t.output, args, beh)
             IN  [blank EXCEPT !.judged = TRUE, !.called = TRUE,
                    !.args = args,
                    !.returned = r.value,
                    !.raised = r.raises,
                    !.errStdout = r.errStdout,
                    !.verdict = IF r.raises # "none" THEN "none"
                                ELSE IF Truth(r.value) THEN "pass"
                                ELSE "mismatch"]

\* The try statement with its except clause: the handler prints the
\* failure and evaluates len(err.stdout), a TypeError when it is None.
\* "abort" is an exception leaving run_tests.
Outcome(body) ==
    IF body.raised = "none" THEN body.verdict
    ELSE IF Catches(body.raised)
    THEN IF body.errStdout = "None" THEN "abort" ELSE "execfail"
    ELSE "abort"

Propagated(body) ==
    IF Catches(body.raised) THEN "TypeError" ELSE body.raised

\* One iteration of the loop of run_tests.
RunTest ==
    /\ pc = "run_tests"
    /\ idx < Len(tests)
    /\ LET t == tests[idx + 1] IN
       \E code \in ExitCodes, stdout \in Texts :
       \E beh \in (IF /\ ~CheckRaises(code)
                       /\ t.type = "checker"
                       /\ Runs(t.output, CallArgs(t.input, Strip(stdout)))
                    THEN Behaviours ELSE {NoCall}) :
          LET body == TryBody(t, code, stdout, beh)
              outcome == Outcome(body)
          IN  /\ last' = [index |-> idx + 1, key |-> t.key, type |-> t.type,
                          input |-> t.input, output |-> t.output,
                          code |-> code, stdout |-> stdout,
                          judged |-> body.judged, called |-> body.called,
                          args |-> body.args, returned |-> body.returned,
                          raised |-> body.raised, outcome |-> outcome,
                          passedBefore |-> passed_tests]
              /\ passed_tests' = IF outcome = "pass" THEN passed_tests + 1
                                 ELSE passed_tests
              /\ IF outcome = "abort"
                 THEN /\ pc' = "exited"
                      /\ exitStatus' = 1
                      /\ uncaught' = Propagated(body)
                      /\ idx' = idx
                 ELSE /\ idx' = idx + 1
                      /\ UNCHANGED <<pc, exitStatus, uncaught>>
    /\ UNCHANGED <<dir, tests, report>>

\* -------------------------------------------------------------------- main
\* print_error(text, exit_program, ...) calls sys.exit(1) iff exit_program.
ExitsProgram(exit_program) == exit_program

\* The end of main, once run_tests has returned: the final line, and the
\* status the interpreter exits with.
Finish ==
    /\ pc = "run_tests"
    /\ idx = Len(tests)
    /\ IF passed_tests = Len(tests)
       THEN /\ report' = "all"
            /\ exitStatus' = 0
       ELSE /\ report' = "partial"
            /\ exitStatus' = IF ExitsProgram(FALSE) THEN 1 ELSE 0
    /\ pc' = "exited"
    /\ UNCHANGED <<dir, tests, idx, passed_tests, last, uncaught>>

Next == GetTests \/ GetTestsImportError \/ RunTest \/ Finish

Spec == Init /\ [][Next]_vars

\* ================================================================== claims
\* s is c with whitespace before and after it.
Surrounds(s, c) ==
    \E i \in 0..Len(s) :
        /\ i + Len(c) <= Len(s)
        /\ \A k \in 1..i : s[k] \in Whitespace
        /\ \A k \in 1..Len(c) : s[i + k] = c[k]
        /\ \A k \in (i + Len(c) + 1)..Len(s) : s[k] \in Whitespace

NoOuterWhitespace(c) ==
    c = <<>> \/ (c[1] \notin Whitespace /\ c[Len(c)] \notin Whitespace)

\* x and y are the same text up to leading and trailing whitespace.
SameTrimmed(x, y) ==
    \E c \in Texts : NoOuterWhitespace(c) /\ Surrounds(x, c) /\ Surrounds(y, c)

\* get_tests returned a TestSet (it did not raise).
Discovered == pc # "get_tests" /\ uncaught # "ImportError"

\* C1: a Static test whose program exits with status 0 is counted as passed
\* iff the actual and the expected output are equal up to leading and
\* trailing whitespace; otherwise it is a judged mismatch and not counted.
C1_StaticPassIffTrimmedEqual ==
    (last.type = "static" /\ last.code = 0) =>
        /\ last.outcome \in {"pass", "mismatch"}
        /\ last.outcome = "pass"
              <=> SameTrimmed(last.stdout, last.output.text)
        /\ passed_tests = last.passedBefore
              + (IF SameTrimmed(last.stdout, last.output.text) THEN 1 ELSE 0)

\* A static test passed although output and expected text differ, in
\* leading against trailing whitespace.
C1_Witness ==
    /\ last.type = "static" /\ last.code = 0 /\ last.outcome = "pass"
    /\ last.stdout = <<" ", "a">>
    /\ last.output.text = <<"a", " ">>
    /\ passed_tests = last.passedBefore + 1

\* C2: a non-zero exit status of the program is recorded as an execution
\* failure: nothing is judged (no comparison, no predicate call), the tally
\* is unchanged, nothing aborts, and the loop has moved on to the next
\* test; if the process has ended, it ended with the final report after
\* the loop went through every test.
C2_NonZeroExitRecordedAndRunContinues ==
    (last.index > 0 /\ last.code # 0) =>
        /\ last.outcome = "execfail"
        /\ ~last.judged /\ ~last.called /\ last.args = <<>>
        /\ passed_tests = last.passedBefore
        /\ passed_tests < Len(tests)
        /\ idx = last.index
        /\ uncaught = "none"
        /\ pc = "run_tests" \/ (pc = "exited" /\ report = "partial"
                                  /\ idx = Len(tests))

\* The program exited with status 2 on a test that is not the last one:
\* the loop is about to run the next test.
C2_Witness ==
    /\ last.code = 2 /\ last.outcome = "execfail"
    /\ pc = "run_tests" /\ idx = last.index /\ idx < Len(tests)

\* C3: once main has reported, the exit status is success iff every test
\* of the TestSet passed.
C3_ExitStatusReflectsTally ==
    (pc = "exited" /\ uncaught = "none") =>
        (exitStatus = 0 <=> passed_tests = Len(tests))

\* C4: a directory with no .in file and no manifest ends the run with a
\* discovery error, never with a report that all (zero) tests passed.
C4_NoFormatIsDiscoveryError ==
    (pc = "exited" /\ dir.ins = {} /\ ~dir.hasManifest) =>
        (uncaught # "none" /\ exitStatus = 1 /\ report = "none")

\* C5: a manifest entry that is a list of a length other than 1 or 2
\* makes discovery fail: get_tests does not return a TestSet.
C5_MalformedEntryFailsDiscovery ==
    (/\ pc # "get_tests"
     /\ dir.hasManifest
     /\ \E i \in 1..Len(dir.manifest) : Len(dir.manifest[i].list) \notin {1, 2})
        => (pc = "exited" /\ uncaught # "none" /\ last.index = 0)

\* C6: every test of the TestSet has exactly one of expected output and
\* checker populated: a static test an expected text, a checker test a
\* resolved predicate.
C6_ExactlyOnePopulated ==
    \A i \in 1..Len(tests) :
        /\ tests[i].type = "static" => tests[i].output.kind = "text"
        /\ tests[i].type = "checker" => tests[i].output.kind = "callable"

\* C7: the predicate of the shared bulk checker is called with
\* (input, actual output), a per-test checker with (actual output) alone.
C7_PerTestCheckerGetsOutputOnly ==
    (last.called /\ last.output.kind = "callable") =>
        last.args = IF last.output.mod = "ALLTESTS"
                    THEN <<last.input, Strip(last.stdout)>>
                    ELSE <<Strip(last.stdout)>>

\* C8 as stated: a Checker test whose program exits with status 0 is
\* counted as passed iff the predicate returns the boolean True.
C8_PassIffReturnsTrue ==
    (last.type = "checker" /\ last.code = 0) =>
        (last.outcome = "pass" <=> last.returned = "True")

\* C8 amended: a Checker test whose program exits with status 0 is counted
\* as passed iff the predicate returns a value Python takes as true (True,
\* or a truthy non-boolean such as 1); a returned falsy value is a judged
\* mismatch; the tally grows by one exactly on a pass.
C8_PassIffReturnsTruthy ==
    (last.type = "checker" /\ last.code = 0) =>
        /\ last.outcome = "pass"
              <=> (last.raised = "none" /\ last.returned \in {"True", "1"})
        /\ (last.raised = "none" /\ last.returned \in {"False", "''"})
              => last.outcome = "mismatch"
        /\ passed_tests = last.passedBefore
              + (IF last.outcome = "pass" THEN 1 ELSE 0)

\* A predicate returned 1 and the test was counted as passed.
C8_Witness ==
    /\ last.type = "checker" /\ last.code = 0
    /\ last.called /\ last.returned = "1"
    /\ last.outcome = "pass" /\ passed_tests = last.passedBefore + 1

HasTest(k, ty, out) ==
    \E i \in 1..Len(tests) :
        tests[i].key = k /\ tests[i].type = ty /\ tests[i].output = out

\* C9: for every base name B with B.in, the TestSet holds a static test
\* under B#in/out iff B.out exists, a per-test checker test under B#in/py
\* iff B.py exists and a bulk checker test under B#in/atpy iff ALLTESTS
\* exists; keys are pairwise distinct, and the TestSet has one test per
\* format that applies, manifest tests included: none overwrote another.
C9_OneTestPerFormat ==
    Discovered =>
        /\ \A B \in dir.ins :
              /\ HasTest(B \o "#in/out", "static", TextValue(dir.expected))
                    <=> B \in dir.outs
              /\ HasTest(B \o "#in/py", "checker", Callable(B))
                    <=> B \in dir.pys
              /\ HasTest(B \o "#in/atpy", "checker", Callable("ALLTESTS"))
                    <=> dir.alltests
        /\ \A i, j \in 1..Len(tests) :
              i # j => tests[i].key # tests[j].key
        /\ Len(tests) =
              Cardinality(dir.outs) + Cardinality(dir.pys)
              + (IF dir.alltests THEN Cardinality(dir.ins) ELSE 0)
              + Cardinality({i \in 1..Len(dir.manifest) :
                                Len(dir.manifest[i].list) \in {1, 2}})

\* foo.in, foo.out, foo.py and ALLTESTS give three tests for foo, beside
\* the static manifest test named foo.
C9_Witness ==
    /\ Discovered
    /\ dir.outs = {"foo"} /\ dir.pys = {"foo"} /\ dir.alltests
    /\ Len(tests) = 4
    /\ Cardinality({i \in 1..Len(tests) :
            tests[i].key \in {"foo#in/out", "foo#in/py", "foo#in/atpy"}}) = 3
    /\ HasTest("foo#json", "static", TextValue(dir.expected))

\* C10: when a checker predicate raises, the run aborts at that test: no
\* pass, no recorded failure, no later test run, no final report.
C10_CheckerRaiseAborts ==
    (last.called /\ last.raised # "none") =>
        /\ last.outcome = "abort"
        /\ pc = "exited" /\ exitStatus = 1 /\ report = "none"
        /\ idx = last.index - 1
        /\ passed_tests = last.passedBefore
====
